---------------------------- MODULE Spec2Model ----------------------------
(***************************************************************************)
(* Model of llm_lib's response-extraction and data-repair pipeline:        *)
(*   - JsonSchemaDataGenerator._process_generated_data / _process_item /   *)
(*     _ensure_unsplash_url / _format_icon   (json_generator.py)           *)
(*   - ShadcnToTypeScriptConverter.convert / _extract_props_from_component *)
(*     (shadcn_to_ts.py)                                                   *)
(*                                                                         *)
(* A Python str is a sequence of one-character strings, so that lower(),   *)
(* strip(), capitalize(), startswith() and the `in` substring test are     *)
(* computed character by character.  A JSON value is a tagged record:      *)
(*   [t |-> "null"], [t |-> "bool", v], [t |-> "num", v], [t |-> "str", v],*)
(*   [t |-> "arr", v |-> sequence of values],                              *)
(*   [t |-> "obj", v |-> sequence of [k |-> key, v |-> value]]             *)
(* (a Python dict keeps insertion order and has distinct keys).  A raised  *)
(* Python exception is the value [t |-> "raise", v |-> its class name].    *)
(***************************************************************************)
EXTENDS Integers, Sequences, FiniteSets, TLC

VARIABLES
    data,       \* the list handed to the next _process_generated_data call
    orig,       \* the list the caller first supplied
    prev,       \* the argument of the latest _process_generated_data call
    calls,      \* number of _process_generated_data calls made so far
    raised,     \* class name of the exception the latest call raised, or "none"
    text,       \* completion text handed back to convert (a token sequence)
    conv,       \* outcome of convert, or the idle record before it ran
    provided,   \* what the completion provider came to in the orchestrator call
    finder,     \* the latest call on the tag finder and what it came to
    catalog     \* TAG_CATEGORIES of the tag engine the finder instance holds

vars == <<data, orig, prev, calls, raised, text, conv, provided, finder, catalog>>

---------------------------------------------------------------------------
(* Python str primitives, character by character *)

UpperLetters ==
    <<"A","B","C","D","E","F","G","H","I","J","K","L","M",
      "N","O","P","Q","R","S","T","U","V","W","X","Y","Z">>

LowerLetters ==
    <<"a","b","c","d","e","f","g","h","i","j","k","l","m",
      "n","o","p","q","r","s","t","u","v","w","x","y","z">>

IsUpperCh(c) == \E i \in DOMAIN UpperLetters : UpperLetters[i] = c

IsLowerCh(c) == \E i \in DOMAIN LowerLetters : LowerLetters[i] = c

ToLowerCh(c) ==
    IF IsUpperCh(c)
    THEN LowerLetters[CHOOSE i \in DOMAIN UpperLetters : UpperLetters[i] = c]
    ELSE c

ToUpperCh(c) ==
    IF IsLowerCh(c)
    THEN UpperLetters[CHOOSE i \in DOMAIN LowerLetters : LowerLetters[i] = c]
    ELSE c

\* str.lower()
Lower(s) == [i \in 1..Len(s) |-> ToLowerCh(s[i])]

\* str.capitalize(): first character upper-cased, the rest lower-cased
Capitalize(s) ==
    [i \in 1..Len(s) |-> IF i = 1 THEN ToUpperCh(s[i]) ELSE ToLowerCh(s[i])]

\* str.replace(old, new) for one-character old and new
ReplaceCh(s, old, new) == [i \in 1..Len(s) |-> IF s[i] = old THEN new ELSE s[i]]

\* str.startswith(p)
StartsWith(s, p) == Len(p) <= Len(s) /\ \A j \in 1..Len(p) : s[j] = p[j]

\* `p in s` for strings
Contains(s, p) ==
    \E i \in 1..(Len(s) - Len(p) + 1) : \A j \in 1..Len(p) : s[i + j - 1] = p[j]

IsSpaceCh(c) == c = " "

\* str.strip(): leading and trailing whitespace removed
Strip(s) ==
    LET inner == {i \in 1..Len(s) : ~IsSpaceCh(s[i])}
    IN  IF inner = {} THEN <<>>
        ELSE SubSeq(s, CHOOSE i \in inner : \A j \in inner : i <= j,
                       CHOOSE i \in inner : \A j \in inner : j <= i)

\* truth value of a str: non-empty
Truthy(s) == Len(s) > 0

IndexError == "IndexError"

\* s[i] (1-based here); an index out of range raises IndexError
CharAt(s, i) == IF i \in 1..Len(s) THEN s[i] ELSE IndexError

---------------------------------------------------------------------------
(* JSON values *)

Null == [t |-> "null"]

Bool(b) == [t |-> "bool", v |-> b]

Num(n) == [t |-> "num", v |-> n]

Str(s) == [t |-> "str", v |-> s]

Arr(items) == [t |-> "arr", v |-> items]

Obj(entries) == [t |-> "obj", v |-> entries]

Entry(key, value) == [k |-> key, v |-> value]

Raise(class) == [t |-> "raise", v |-> class]

IsRaise(x) == x.t = "raise"

\* `key in d` for a dict d
HasKey(d, key) == \E i \in 1..Len(d.v) : d.v[i].k = key

\* d[key] = value on a dict's entry list: replace in place, or append
DictSet(entries, key, value) ==
    IF \E i \in 1..Len(entries) : entries[i].k = key
    THEN [i \in 1..Len(entries) |->
            IF entries[i].k = key THEN Entry(key, value) ELSE entries[i]]
    ELSE Append(entries, Entry(key, value))

---------------------------------------------------------------------------
(* JsonSchemaDataGenerator: the post-processor *)

IMAGE_KEYS == <<<<"i", "m", "a", "g", "e">>, <<"i", "m", "g">>, <<"p", "h", "o", "t", "o">>, <<"p", "i", "c", "t", "u", "r", "e">>, <<"t", "h", "u", "m", "b", "n", "a", "i", "l">>>>

\* the icon substrings with "logo" left out (seeded fault)
ICON_KEYS_without_logo == <<<<"i", "c", "o", "n">>, <<"s", "v", "g">>>>

ICON_KEYS == <<<<"i", "c", "o", "n">>, <<"s", "v", "g">>, <<"l", "o", "g", "o">>>>

PLACEHOLDERS == <<<<"i", "m", "a", "g", "e">>, <<"p", "l", "a", "c", "e", "h", "o", "l", "d", "e", "r">>, <<"p", "h", "o", "t", "o">>>>

HTTP == <<"h", "t", "t", "p">>

UNSPLASH_HOST == <<"u", "n", "s", "p", "l", "a", "s", "h", ".", "c", "o", "m">>

UNSPLASH_PREFIX == <<"h", "t", "t", "p", "s", ":", "/", "/", "s", "o", "u", "r", "c", "e", ".", "u", "n", "s", "p", "l", "a", "s", "h", ".", "c", "o", "m", "/", "r", "a", "n", "d", "o", "m", "?">>

\* any(k in s for k in keys)
AnyKeyIn(keys, s) == \E i \in 1..Len(keys) : Contains(s, keys[i])

\* value in [ ... ] for a list of strings
InList(list, value) == \E i \in 1..Len(list) : list[i] = value

\* _ensure_unsplash_url slugifying the value whatever it is, the context
\* unused (seeded fault)
_ensure_unsplash_url_of_value(value, context) ==
    IF StartsWith(value, HTTP) /\ Contains(value, UNSPLASH_HOST)
    THEN value
    ELSE UNSPLASH_PREFIX \o Lower(ReplaceCh(value, " ", "-"))

\* _ensure_unsplash_url(value, context) on str arguments
_ensure_unsplash_url(value, context) ==
    IF StartsWith(value, HTTP) /\ Contains(value, UNSPLASH_HOST)
    THEN value
    ELSE LET sanitized ==
                 IF InList(PLACEHOLDERS, value) /\ Truthy(context)
                 THEN Lower(context)
                 ELSE Lower(ReplaceCh(value, " ", "-"))
         IN  UNSPLASH_PREFIX \o sanitized

\* PackageOf without the Md row of the table (seeded fault)
PackageOfWithoutMd(icon_name) ==
    IF StartsWith(icon_name, <<"F", "a">>) THEN <<"r", "e", "a", "c", "t", "-", "i", "c", "o", "n", "s", "/", "f", "a">>
    ELSE IF StartsWith(icon_name, <<"I", "o">>) THEN <<"r", "e", "a", "c", "t", "-", "i", "c", "o", "n", "s", "/", "i", "o">>
    ELSE IF StartsWith(icon_name, <<"B", "i">>) THEN <<"r", "e", "a", "c", "t", "-", "i", "c", "o", "n", "s", "/", "b", "i">>
    ELSE IF StartsWith(icon_name, <<"F", "i">>) THEN <<"r", "e", "a", "c", "t", "-", "i", "c", "o", "n", "s", "/", "f", "i">>
    ELSE <<"r", "e", "a", "c", "t", "-", "i", "c", "o", "n", "s", "/", "f", "a">>

\* the if/elif chain choosing the react-icons package from the name's prefix
PackageOf(icon_name) ==
    IF StartsWith(icon_name, <<"F", "a">>) THEN <<"r", "e", "a", "c", "t", "-", "i", "c", "o", "n", "s", "/", "f", "a">>
    ELSE IF StartsWith(icon_name, <<"M", "d">>) THEN <<"r", "e", "a", "c", "t", "-", "i", "c", "o", "n", "s", "/", "m", "d">>
    ELSE IF StartsWith(icon_name, <<"I", "o">>) THEN <<"r", "e", "a", "c", "t", "-", "i", "c", "o", "n", "s", "/", "i", "o">>
    ELSE IF StartsWith(icon_name, <<"B", "i">>) THEN <<"r", "e", "a", "c", "t", "-", "i", "c", "o", "n", "s", "/", "b", "i">>
    ELSE IF StartsWith(icon_name, <<"F", "i">>) THEN <<"r", "e", "a", "c", "t", "-", "i", "c", "o", "n", "s", "/", "f", "i">>
    ELSE <<"r", "e", "a", "c", "t", "-", "i", "c", "o", "n", "s", "/", "f", "a">>

\* the dict _format_icon returns
IconObject(package, icon_name) ==
    Obj(<<Entry(<<"p", "a", "c", "k", "a", "g", "e">>, Str(package)), Entry(<<"n", "a", "m", "e">>, Str(icon_name))>>)

\* _format_icon with the `value and` guard before value[0] dropped (seeded fault)
_format_icon_unguarded(value) ==
    LET stripped == Strip(value.v)
        first == CharAt(stripped, 1)
    IN  IF first = IndexError THEN Raise(IndexError)
        ELSE LET icon_name == IF IsUpperCh(first) THEN stripped
                              ELSE <<"F", "a">> \o Capitalize(stripped)
             IN  IconObject(PackageOf(icon_name), icon_name)

\* _format_icon storing the name under "icon" instead of "name" (seeded fault)
_format_icon_field_icon(value) ==
    LET stripped == Strip(value.v)
        icon_name == IF Truthy(stripped) /\ IsUpperCh(CharAt(stripped, 1))
                     THEN stripped ELSE <<"F", "a">> \o Capitalize(stripped)
    IN  Obj(<<Entry(<<"p", "a", "c", "k", "a", "g", "e">>, Str(PackageOf(icon_name))),
              Entry(<<"i", "c", "o", "n">>, Str(icon_name))>>)

\* _format_icon(value)
_format_icon(value) ==
    IF value.t = "obj" /\ HasKey(value, <<"p", "a", "c", "k", "a", "g", "e">>) /\ HasKey(value, <<"n", "a", "m", "e">>)
    THEN value
    ELSE LET stripped == Strip(value.v)
         IN  IF Truthy(stripped)
             THEN LET first == CharAt(stripped, 1)
                  IN  IF first = IndexError THEN Raise(IndexError)
                      ELSE LET icon_name == IF IsUpperCh(first) THEN stripped
                                            ELSE <<"F", "a">> \o Capitalize(stripped)
                           IN  IconObject(PackageOf(icon_name), icon_name)
             ELSE LET icon_name == <<"F", "a">> \o Capitalize(stripped)
                  IN  IconObject(PackageOf(icon_name), icon_name)

\* ProcessValue with the icon branch's startswith("http") test dropped
\* (seeded fault)
ProcessValueNoHttpGuard(key, processed_value) ==
    IF processed_value.t = "str"
    THEN IF AnyKeyIn(IMAGE_KEYS, Lower(key))
         THEN IF ~StartsWith(processed_value.v, HTTP)
              THEN Str(_ensure_unsplash_url(processed_value.v, key))
              ELSE processed_value
         ELSE IF AnyKeyIn(ICON_KEYS, Lower(key))
              THEN _format_icon(processed_value)
              ELSE processed_value
    ELSE processed_value

\* ProcessValue with `else` in place of the `elif` on the icon substrings
\* (seeded fault)
ProcessValueElse(key, processed_value) ==
    IF processed_value.t = "str"
    THEN IF AnyKeyIn(IMAGE_KEYS, Lower(key))
         THEN IF ~StartsWith(processed_value.v, HTTP)
              THEN Str(_ensure_unsplash_url(processed_value.v, key))
              ELSE processed_value
         ELSE IF processed_value.t # "obj" /\ ~StartsWith(processed_value.v, HTTP)
              THEN _format_icon(processed_value)
              ELSE processed_value
    ELSE processed_value

\* the special handling of one key/value pair, after the value was processed
ProcessValue(key, processed_value) ==
    IF processed_value.t = "str"
    THEN IF AnyKeyIn(IMAGE_KEYS, Lower(key))
         THEN IF ~StartsWith(processed_value.v, HTTP)
              THEN Str(_ensure_unsplash_url(processed_value.v, key))
              ELSE processed_value
         ELSE IF AnyKeyIn(ICON_KEYS, Lower(key))
              THEN IF processed_value.t # "obj" /\ ~StartsWith(processed_value.v, HTTP)
                   THEN _format_icon(processed_value)
                   ELSE processed_value
              ELSE processed_value
    ELSE processed_value

\* StoreEntry storing under key.lower() (seeded fault)
StoreEntryLowerKey(processed_item, key, processed_value) ==
    DictSet(processed_item, Lower(key), processed_value)

\* processed_item[key] = processed_value
StoreEntry(processed_item, key, processed_value) ==
    DictSet(processed_item, key, processed_value)

RECURSIVE _process_item(_), ProcessDict(_, _, _), ProcessList(_, _, _)

\* _process_item(item)
_process_item(item) ==
    IF item.t = "obj" THEN ProcessDict(item.v, 1, <<>>)
    ELSE IF item.t = "arr" THEN ProcessList(item.v, 1, <<>>)
    ELSE item

\* the loop over item.items(), from the i-th pair on
ProcessDict(entries, i, processed_item) ==
    IF i > Len(entries) THEN Obj(processed_item)
    ELSE LET key == entries[i].k
             sub == _process_item(entries[i].v)
         IN  IF IsRaise(sub) THEN sub
             ELSE LET processed_value == ProcessValue(key, sub)
                  IN  IF IsRaise(processed_value) THEN processed_value
                      ELSE ProcessDict(entries, i + 1,
                               StoreEntry(processed_item, key, processed_value))

\* the list comprehension over the sub-items, from the i-th on
ProcessList(items, i, acc) ==
    IF i > Len(items) THEN Arr(acc)
    ELSE LET sub == _process_item(items[i])
         IN  IF IsRaise(sub) THEN sub
             ELSE ProcessList(items, i + 1, Append(acc, sub))

\* _process_generated_data(data): the processed list (as a JSON array), or the
\* exception that escaped the loop
_process_generated_data(d) == ProcessList(d, 1, <<>>)

---------------------------------------------------------------------------
(* Inputs of the post-processor: JSON trees nested to MaxDepth *)

MaxDepth == 2

MaxCalls == 2

SampleKeys == {<<"h", "e", "r", "o", "I", "m", "a", "g", "e">>, <<"c", "t", "a", "I", "c", "o", "n">>, <<"t", "i", "t", "l", "e">>, <<"L", "O", "G", "O">>, <<"i", "c", "o", "n", "I", "m", "a", "g", "e">>}

SampleStrings ==
    {<<"p", "l", "a", "c", "e", "h", "o", "l", "d", "e", "r">>, <<"a", "r", "r", "o", "w">>, <<"F", "a", "U", "s", "e", "r">>, <<"M", "d", "H", "o", "m", "e">>, <<>>, <<" ", "m", "y", " ", "c", "a", "t">>,
     <<"h", "t", "t", "p", ":", "/", "/", "a", ".", "i", "o", "/", "p">>, <<"h", "t", "t", "p", "s", ":", "/", "/", "u", "n", "s", "p", "l", "a", "s", "h", ".", "c", "o", "m", "/", "p">>, <<"9", "a">>}

Leaves == {Null, Bool(TRUE), Num(1)} \cup {Str(s) : s \in SampleStrings}

SiblingEntry == Entry(<<"l", "o", "g", "o">>, Str(<<"a", "r", "r", "o", "w">>))

SiblingItem == Str(<<"p", "h", "o", "t", "o">>)

RECURSIVE Trees(_)

\* every tree of depth at most d: a leaf, an empty container, an object
\* holding one subtree under a sample key, alone or followed by a fixed second
\* pair, or an array holding one subtree followed by a fixed second element
Trees(d) ==
    IF d = 0 THEN Leaves
    ELSE LET sub == Trees(d - 1)
         IN  Leaves \cup {Obj(<<>>), Arr(<<>>)}
               \cup {Obj(<<Entry(k, v)>>) : k \in SampleKeys, v \in sub}
               \cup {Obj(<<Entry(k, v), SiblingEntry>>) : k \in SampleKeys, v \in sub}
               \cup {Arr(<<v, SiblingItem>>) : v \in sub}

DataLists ==
    {<<>>} \cup {<<v>> : v \in Trees(MaxDepth)}
           \cup {<<v, Obj(<<SiblingEntry>>)>> : v \in Leaves}

\* the error classes of the completion provider
PROVIDER_ERRORS ==
    {"CompletionError", "APIKeyError", "RateLimitError",
     "ModelNotAvailableError", "InvalidRequestError", "LLMTimeoutError"}

\* what the completion provider came to: nothing before it is called, then the
\* value it returned, or Raise(e) for the error it raised
NotCalled == [t |-> "none"]

Completed(v) == [t |-> "ok", v |-> v]

\* what a call of convert came to: pc is "returned" (with the tuple returned)
\* or "raised" (with the exception's class), and "idle" before the call
Outcome(pc, ts_component_code, props_file_content, metadata, error) ==
    [pc |-> pc, ts_component_code |-> ts_component_code,
     props_file_content |-> props_file_content, metadata |-> metadata,
     error |-> error]

Idle == Outcome("idle", <<>>, <<>>, Null, "none")

---------------------------------------------------------------------------
(* The post-processor as a state machine *)

Init ==
    /\ data \in DataLists
    /\ orig = data
    /\ prev = data
    /\ calls = 0
    /\ raised = "none"
    /\ text = <<>>
    /\ conv = Idle
    /\ provided = NotCalled
    /\ finder = [pc |-> "idle"]
    /\ catalog = <<>>

\* one call _process_generated_data(data); the caller passes the returned list
\* to the next call
ProcessGeneratedData ==
    /\ calls < MaxCalls
    /\ raised = "none"
    /\ \E result \in {_process_generated_data(data)} :
           /\ prev' = data
           /\ calls' = calls + 1
           /\ raised' = IF IsRaise(result) THEN result.v ELSE "none"
           /\ data' = IF IsRaise(result) THEN data ELSE result.v
    /\ UNCHANGED <<orig, text, conv, provided, finder, catalog>>

Next == ProcessGeneratedData

Spec == Init /\ [][Next]_vars

---------------------------------------------------------------------------
(* Vocabulary of the properties of the post-processor *)

ImageWords == {<<"i", "m", "a", "g", "e">>, <<"i", "m", "g">>, <<"p", "h", "o", "t", "o">>, <<"p", "i", "c", "t", "u", "r", "e">>, <<"t", "h", "u", "m", "b", "n", "a", "i", "l">>}

IconWords == {<<"i", "c", "o", "n">>, <<"s", "v", "g">>, <<"l", "o", "g", "o">>}

NamesImage(key) == \E w \in ImageWords : Contains(Lower(key), w)

NamesIcon(key) == \E w \in IconWords : Contains(Lower(key), w)

IsScalar(x) == x.t \in {"null", "bool", "num", "str"}

Kind(x) == IF IsScalar(x) THEN "scalar" ELSE x.t

KeysOf(x) == {x.v[i].k : i \in 1..Len(x.v)}

ValueAt(x, key) == x.v[CHOOSE i \in 1..Len(x.v) : x.v[i].k = key].v

\* the call returned: it ran at least once and nothing escaped
Returned == calls >= 1 /\ raised = "none"

\* P holds of every (input item, output item) pair of the processed list
EveryItem(P(_, _)) ==
    /\ Len(data) = Len(orig)
    /\ \A i \in 1..Len(orig) : P(orig[i], data[i])

---------------------------------------------------------------------------
(* C1 *)

\* C1: post-processing is idempotent: processing the list a call returned
\* returns that same list, _process_item(_process_item(v)) = _process_item(v)
\* for each of its items.
C1_Idempotent == (calls >= 2 /\ raised = "none") => data = prev

\* the second call ran on a list whose first call had rewritten something
C1_Witness == calls = 2 /\ raised = "none" /\ prev # orig /\ data = prev

---------------------------------------------------------------------------
(* C2 *)

RECURSIVE SameShape(_, _)

\* every object of x has its key set in y, every array of x its length in y,
\* at every level, members compared key by key and position by position
SameShape(x, y) ==
    IF x.t = "obj"
    THEN /\ y.t = "obj"
         /\ Len(y.v) = Len(x.v)
         /\ KeysOf(y) = KeysOf(x)
         /\ \A i \in 1..Len(x.v) : SameShape(x.v[i].v, ValueAt(y, x.v[i].k))
    ELSE IF x.t = "arr"
    THEN /\ y.t = "arr"
         /\ Len(y.v) = Len(x.v)
         /\ \A i \in 1..Len(x.v) : SameShape(x.v[i], y.v[i])
    ELSE TRUE

\* C2: post-processing preserves shape: at every nesting level each object of
\* the input has exactly the same key set in the output and each array the
\* same length, its elements in the same order.
C2_ShapePreserved == Returned => EveryItem(SameShape)

\* a two-key object holding a two-element array was processed and one of its
\* leaves rewritten
C2_Witness ==
    /\ Returned
    /\ Len(orig) = 1
    /\ orig[1].t = "obj"
    /\ Len(orig[1].v) = 2
    /\ orig[1].v[1].v.t = "arr"
    /\ Len(orig[1].v[1].v.v) = 2
    /\ data # orig

---------------------------------------------------------------------------
(* C3 *)

RECURSIVE SameKind(_, _)

\* y is an object, an array or a scalar wherever x is
SameKind(x, y) ==
    /\ Kind(y) = Kind(x)
    /\ x.t = "obj" =>
          /\ Len(y.v) = Len(x.v)
          /\ \A i \in 1..Len(x.v) : SameKind(x.v[i].v, y.v[i].v)
    /\ x.t = "arr" =>
          /\ Len(y.v) = Len(x.v)
          /\ \A i \in 1..Len(x.v) : SameKind(x.v[i], y.v[i])

\* C3 as stated: the structural kind of the value at every position is
\* preserved exactly (object iff object, array iff array, scalar iff scalar).
C3_KindPreserved == Returned => EveryItem(SameKind)

\* a string the icon rule turns into an object: directly under a key naming an
\* icon and no image, and not starting with "http"
IconRewritten(underKey, key, x) ==
    /\ x.t = "str"
    /\ underKey
    /\ NamesIcon(key)
    /\ ~NamesImage(key)
    /\ ~StartsWith(x.v, <<"h", "t", "t", "p">>)

RECURSIVE SameKindButIcons(_, _, _, _)

SameKindButIcons(x, y, underKey, key) ==
    IF x.t = "obj"
    THEN /\ y.t = "obj"
         /\ Len(y.v) = Len(x.v)
         /\ \A i \in 1..Len(x.v) :
                SameKindButIcons(x.v[i].v, y.v[i].v, TRUE, x.v[i].k)
    ELSE IF x.t = "arr"
    THEN /\ y.t = "arr"
         /\ Len(y.v) = Len(x.v)
         /\ \A i \in 1..Len(x.v) : SameKindButIcons(x.v[i], y.v[i], FALSE, <<>>)
    ELSE IF IconRewritten(underKey, key, x) THEN y.t = "obj"
    ELSE IsScalar(y)

SameKindButIconsTop(x, y) == SameKindButIcons(x, y, FALSE, <<>>)

\* C3 amended: every object stays an object, every array an array and every
\* scalar a scalar, except that a string directly under a key matching the icon
\* heuristic (and not the image one) that does not start with "http" becomes an
\* object.
C3_KindPreservedButIcons == Returned => EveryItem(SameKindButIconsTop)

\* {"ctaIcon": "arrow"} was processed and the string became an object, while
\* the string under {"ctaIcon": "http://a.io/p"} would stay one
C3_Witness ==
    /\ Returned
    /\ orig = <<Obj(<<Entry(<<"c", "t", "a", "I", "c", "o", "n">>, Str(<<"a", "r", "r", "o", "w">>))>>)>>
    /\ data[1].v[1].v.t = "obj"

---------------------------------------------------------------------------
(* C4 *)

RECURSIVE Framed(_, _, _, _)

\* every number, boolean and null, every string under a key naming neither an
\* image nor an icon, and every string that is an element of an array (or the
\* item itself) is in y what it was in x
Framed(x, y, underKey, key) ==
    IF x.t = "obj"
    THEN /\ y.t = "obj"
         /\ Len(y.v) = Len(x.v)
         /\ \A i \in 1..Len(x.v) :
                /\ y.v[i].k = x.v[i].k
                /\ Framed(x.v[i].v, y.v[i].v, TRUE, x.v[i].k)
    ELSE IF x.t = "arr"
    THEN /\ y.t = "arr"
         /\ Len(y.v) = Len(x.v)
         /\ \A i \in 1..Len(x.v) : Framed(x.v[i], y.v[i], FALSE, <<>>)
    ELSE (x.t # "str" \/ ~underKey \/ ~(NamesImage(key) \/ NamesIcon(key)))
            => y = x

FramedTop(x, y) == Framed(x, y, FALSE, <<>>)

\* C4: post-processing rewrites nothing but string values directly under an
\* object key matching the image or icon heuristic: numbers, booleans, null,
\* strings under other keys and strings that are elements of arrays are equal
\* in the output to what they were in the input.
C4_Frame == Returned => EveryItem(FramedTop)

\* {"title": <string>, "logo": "arrow"} was processed: the title is what it
\* was, the logo is rewritten
C4_Witness ==
    /\ Returned
    /\ Len(orig) = 1
    /\ orig[1].t = "obj"
    /\ Len(orig[1].v) = 2
    /\ orig[1].v[1] = Entry(<<"t", "i", "t", "l", "e">>, Str(<<"p", "l", "a", "c", "e", "h", "o", "l", "d", "e", "r">>))
    /\ data[1].v[1] = orig[1].v[1]
    /\ data[1].v[2] # orig[1].v[2]

---------------------------------------------------------------------------
(* C5 *)

\* an absolute URL to the image host, as _ensure_unsplash_url tests it
IsUnsplashUrl(s) == StartsWith(s, <<"h", "t", "t", "p">>) /\ Contains(s, <<"u", "n", "s", "p", "l", "a", "s", "h", ".", "c", "o", "m">>)

RECURSIVE ImageRule(_, _, _, _)

\* every string of x directly under a key naming an image is in y a
\* synthesized URL on the image host, unless it already is an absolute URL to
\* that host, which is kept
ImageRule(x, y, underKey, key) ==
    IF x.t = "obj"
    THEN /\ y.t = "obj"
         /\ Len(y.v) = Len(x.v)
         /\ \A i \in 1..Len(x.v) : ImageRule(x.v[i].v, y.v[i].v, TRUE, x.v[i].k)
    ELSE IF x.t = "arr"
    THEN /\ y.t = "arr"
         /\ Len(y.v) = Len(x.v)
         /\ \A i \in 1..Len(x.v) : ImageRule(x.v[i], y.v[i], FALSE, <<>>)
    ELSE (x.t = "str" /\ underKey /\ NamesImage(key)) =>
            IF IsUnsplashUrl(x.v) THEN y = x
            ELSE /\ y.t = "str"
                 /\ y # x
                 /\ StartsWith(y.v, <<"h", "t", "t", "p", "s", ":", "/", "/", "s", "o", "u", "r", "c", "e", ".", "u", "n", "s", "p", "l", "a", "s", "h", ".", "c", "o", "m", "/", "r", "a", "n", "d", "o", "m", "?">>)

ImageRuleTop(x, y) == ImageRule(x, y, FALSE, <<>>)

\* C5: a string under an image-naming key that is not already an absolute URL
\* to unsplash.com is replaced with a synthesized stock-photo URL on that host;
\* only absolute URLs to that host are left as they are.
C5_ImageRule == Returned => EveryItem(ImageRuleTop)

---------------------------------------------------------------------------
(* C6 *)

IsIconReference(y) ==
    /\ y.t = "obj"
    /\ Len(y.v) = 2
    /\ KeysOf(y) = {<<"p", "a", "c", "k", "a", "g", "e">>, <<"n", "a", "m", "e">>}
    /\ \A i \in 1..2 : y.v[i].v.t = "str"

RECURSIVE IconRule(_, _, _, _, _)

\* every string of x directly under a key naming an icon and no image is in y
\* an icon reference (unless keepUrls and it starts with "http": then it is
\* kept); an object under such a key is still an object with the same keys
IconRule(x, y, underKey, key, keepUrls) ==
    LET iconKey == underKey /\ NamesIcon(key) /\ ~NamesImage(key)
    IN  IF x.t = "obj"
        THEN /\ y.t = "obj"
             /\ Len(y.v) = Len(x.v)
             /\ iconKey => KeysOf(y) = KeysOf(x)
             /\ \A i \in 1..Len(x.v) :
                    IconRule(x.v[i].v, y.v[i].v, TRUE, x.v[i].k, keepUrls)
        ELSE IF x.t = "arr"
        THEN /\ y.t = "arr"
             /\ Len(y.v) = Len(x.v)
             /\ \A i \in 1..Len(x.v) :
                    IconRule(x.v[i], y.v[i], FALSE, <<>>, keepUrls)
        ELSE (x.t = "str" /\ iconKey) =>
                IF keepUrls /\ StartsWith(x.v, <<"h", "t", "t", "p">>) THEN y = x
                ELSE IsIconReference(y)

IconRuleEvery(x, y) == IconRule(x, y, FALSE, <<>>, FALSE)

IconRuleButUrls(x, y) == IconRule(x, y, FALSE, <<>>, TRUE)

\* C6 as stated: every bare string under a key naming an icon (and no image)
\* is replaced with an object of exactly the fields package and name; an
\* object under such a key is not converted.
C6_IconRule == Returned => EveryItem(IconRuleEvery)

\* C6 amended: every bare string under such a key that does not start with
\* "http" is replaced with an object of exactly the fields package and name; a
\* string that starts with "http" is left as it is; an object under such a key
\* is not converted.
C6_IconRuleButUrls == Returned => EveryItem(IconRuleButUrls)

\* {"LOGO": "MdHome"} was processed into an icon reference
C6_Witness ==
    /\ Returned
    /\ orig = <<Obj(<<Entry(<<"L", "O", "G", "O">>, Str(<<"M", "d", "H", "o", "m", "e">>))>>)>>
    /\ data = <<Obj(<<Entry(<<"L", "O", "G", "O">>,
                    IconObject(<<"r", "e", "a", "c", "t", "-", "i", "c", "o", "n", "s", "/", "m", "d">>, <<"M", "d", "H", "o", "m", "e">>))>>)>>

---------------------------------------------------------------------------
(* C7 *)

RECURSIVE OtherLeavesKept(_, _)

\* every leaf of x that is no string is in y what it was in x
OtherLeavesKept(x, y) ==
    IF x.t = "obj"
    THEN /\ y.t = "obj"
         /\ Len(y.v) = Len(x.v)
         /\ \A i \in 1..Len(x.v) : OtherLeavesKept(x.v[i].v, y.v[i].v)
    ELSE IF x.t = "arr"
    THEN /\ y.t = "arr"
         /\ Len(y.v) = Len(x.v)
         /\ \A i \in 1..Len(x.v) : OtherLeavesKept(x.v[i], y.v[i])
    ELSE x.t # "str" => y = x

\* C7: the post-processor never fails: no call raises, each returns a list of
\* as many items as it was given, and a leaf the rules cannot interpret (a
\* number, a boolean, null, whatever its key) is returned unchanged.
C7_NeverRaises ==
    /\ raised = "none"
    /\ calls >= 1 => EveryItem(OtherLeavesKept)

\* the empty string under an icon key was processed: the call returned
C7_Witness ==
    /\ calls >= 1
    /\ raised = "none"
    /\ orig = <<Obj(<<Entry(<<"c", "t", "a", "I", "c", "o", "n">>, Str(<<>>))>>)>>
    /\ data = <<Obj(<<Entry(<<"c", "t", "a", "I", "c", "o", "n">>, IconObject(<<"r", "e", "a", "c", "t", "-", "i", "c", "o", "n", "s", "/", "f", "a">>, <<"F", "a">>))>>)>>

---------------------------------------------------------------------------
(* ShadcnToTypeScriptConverter.convert                                     *)
(*                                                                         *)
(* The completion text is a sequence of tokens: a fence line (three        *)
(* backticks, alone or followed by json, tsx, ts or typescript), a JSON or *)
(* TypeScript punctuation mark, a quoted JSON string, a TypeScript word,   *)
(* or a word of prose.  A str of the converter is such a token sequence,   *)
(* and the regular expressions of the source are matched token by token.   *)

\* a line of three backticks, written here as the token "fence"; followed by
\* a language tag it is the token "fence:" and the tag
CLOSE_FENCE == "fence"

TS_TAGS == {"tsx", "ts", "typescript"}

\* the opening fence line of a block tagged language
OpenFence(language) == CLOSE_FENCE \o ":" \o language

\* least element of a non-empty set of integers
Least(S) == CHOOSE i \in S : \A j \in S : i <= j

\* extract_code_from_markdown(text, language): the content of the first fenced
\* block whose opening fence declares that tag, or the empty str
extract_code_from_markdown(markdown, language) ==
    LET opens == {i \in 1..Len(markdown) : markdown[i] = OpenFence(language)}
    IN  IF opens = {} THEN <<>>
        ELSE LET closes == {j \in (Least(opens) + 1)..Len(markdown) :
                               markdown[j] = CLOSE_FENCE}
             IN  IF closes = {} THEN <<>>
                 ELSE SubSeq(markdown, Least(opens) + 1, Least(closes) - 1)

UnboundLocalError == "UnboundLocalError"

\* the component code and the props file content convert extracts, error being
\* the class of the exception raised on the way.  The name re is a local
\* variable of convert, bound only by the import statement inside the later
\* metadata branch, so evaluating re.findall, when the two extracted strs are
\* equal, raises UnboundLocalError.
ExtractComponentAndProps(result) ==
    LET tsx == extract_code_from_markdown(result, "tsx")
        typescript == extract_code_from_markdown(result, "typescript")
        ts == extract_code_from_markdown(result, "ts")
        ts_component_code == IF Truthy(tsx) THEN tsx
                             ELSE IF Truthy(typescript) THEN typescript
                             ELSE ts
        props_file_content == ts
    IN  [ts_component_code |-> ts_component_code,
         props_file_content |-> props_file_content,
         error |-> IF props_file_content = ts_component_code
                   THEN UnboundLocalError ELSE "none"]

\* the quoted strings of the JSON texts, and what each decodes to
STRING_TOKENS ==
    <<"\"name\"", "\"props\"", "\"props_file_name\"", "\"Card\"",
      "\"CardProps\"", "\"card.ts\"">>

STRING_VALUES ==
    <<"name", "props", "props_file_name", "Card", "CardProps", "card.ts">>

IsStringToken(tok) == \E i \in DOMAIN STRING_TOKENS : STRING_TOKENS[i] = tok

Unquote(tok) ==
    STRING_VALUES[CHOOSE i \in DOMAIN STRING_TOKENS : STRING_TOKENS[i] = tok]

JSONDecodeError == "JSONDecodeError"

RECURSIVE ParseMembers(_, _, _), ParseElements(_, _, _)

\* the members of a JSON object, from token i of the text between its braces:
\* string : string, separated by commas; a repeated key keeps its last value
ParseMembers(inner, i, acc) ==
    IF i + 2 <= Len(inner) /\ IsStringToken(inner[i]) /\ inner[i + 1] = ":"
          /\ IsStringToken(inner[i + 2])
    THEN LET members == DictSet(acc, Unquote(inner[i]), Str(Unquote(inner[i + 2])))
         IN  IF i + 2 = Len(inner) THEN Obj(members)
             ELSE IF inner[i + 3] = "," THEN ParseMembers(inner, i + 4, members)
             ELSE Raise(JSONDecodeError)
    ELSE Raise(JSONDecodeError)

\* the elements of a JSON array, from token i of the text between its brackets
ParseElements(inner, i, acc) ==
    IF i <= Len(inner) /\ IsStringToken(inner[i])
    THEN LET elements == Append(acc, Str(Unquote(inner[i])))
         IN  IF i = Len(inner) THEN Arr(elements)
             ELSE IF inner[i + 1] = "," THEN ParseElements(inner, i + 2, elements)
             ELSE Raise(JSONDecodeError)
    ELSE Raise(JSONDecodeError)

\* json.loads(s) on a text holding one object or one array of strings: the
\* parsed value, or JSONDecodeError
json_loads(s) ==
    IF Len(s) >= 2 /\ s[1] = "{" /\ s[Len(s)] = "}"
    THEN IF Len(s) = 2 THEN Obj(<<>>)
         ELSE ParseMembers(SubSeq(s, 2, Len(s) - 1), 1, <<>>)
    ELSE IF Len(s) >= 2 /\ s[1] = "[" /\ s[Len(s)] = "]"
    THEN IF Len(s) = 2 THEN Arr(<<>>)
         ELSE ParseElements(SubSeq(s, 2, Len(s) - 1), 1, <<>>)
    ELSE Raise(JSONDecodeError)

\* index of the first token tok after position after, or -1 when there is none
\* (or after is -1 already)
NextIndex(result, tok, after) ==
    IF after < 0 THEN -1
    ELSE LET hits == {i \in (after + 1)..Len(result) : result[i] = tok}
         IN  IF hits = {} THEN -1 ELSE Least(hits)

\* re.search(json_pattern, result): the span from the first "{" through, lazily,
\* "name", "props", "props_file_name" and the next "}"; empty when no match
MarkerSpan(result) ==
    LET brace == NextIndex(result, "{", 0)
        name == NextIndex(result, "\"name\"", brace)
        props == NextIndex(result, "\"props\"", name)
        props_file_name == NextIndex(result, "\"props_file_name\"", props)
        close == NextIndex(result, "}", props_file_name)
    IN  IF close < 0 THEN <<>> ELSE SubSeq(result, brace, close)

\* MetadataStr scanning for the span whenever the fenced block does not parse
\* (seeded fault)
MetadataStrScanUnparsable(result) ==
    LET metadata_str == extract_code_from_markdown(result, "json")
    IN  IF ~Truthy(metadata_str) \/ IsRaise(json_loads(metadata_str))
        THEN MarkerSpan(result)
        ELSE metadata_str

\* metadata_str: the fenced json block, else the marker span, else empty
MetadataStr(result) ==
    LET metadata_str == extract_code_from_markdown(result, "json")
    IN  IF ~Truthy(metadata_str) THEN MarkerSpan(result) ELSE metadata_str

\* ParseMetadata letting the JSONDecodeError escape (seeded fault)
ParseMetadataRaising(metadata_str) ==
    IF Truthy(metadata_str) THEN json_loads(metadata_str) ELSE Obj(<<>>)

\* metadata: json.loads(metadata_str), or {} when it is empty or does not parse
ParseMetadata(metadata_str) ==
    IF Truthy(metadata_str)
    THEN LET parsed == json_loads(metadata_str)
         IN  IF IsRaise(parsed) THEN Obj(<<>>) ELSE parsed
    ELSE Obj(<<>>)

\* the TypeScript words matching \w+Props
PROPS_WORDS == {"CardProps", "HeroProps"}

\* re.search(props_pattern, component_code): an optional export, interface, a
\* name ending in Props, an opening brace, at least one token, and, lazily,
\* the next closing brace; found is FALSE when nothing matches
PropsMatch(component_code) ==
    LET n == Len(component_code)
        closing(i) == {j \in (i + 4)..n : component_code[j] = "}"}
        starts == {i \in 1..n :
                      /\ component_code[i] = "interface"
                      /\ i + 2 <= n
                      /\ component_code[i + 1] \in PROPS_WORDS
                      /\ component_code[i + 2] = "{"
                      /\ closing(i) # {}}
    IN  IF starts = {} THEN [found |-> FALSE, group0 |-> <<>>, group2 |-> ""]
        ELSE LET i == Least(starts)
                 begin == IF i > 1 /\ component_code[i - 1] = "export"
                          THEN i - 1 ELSE i
             IN  [found |-> TRUE,
                  group0 |-> SubSeq(component_code, begin, Least(closing(i))),
                  group2 |-> component_code[i + 1]]

\* d.get(key, default) on a dict
DictGet(d, key, default) == IF HasKey(d, key) THEN
                                d.v[CHOOSE i \in 1..Len(d.v) : d.v[i].k = key].v
                            ELSE default

\* the one-member interface written when the component declares none
DefaultInterface(props_name) ==
    <<"export", "interface", props_name, "{", "children?", "}">>

\* what _extract_props_from_component came to: the str it returned, the
\* metadata dict as it left it, and the class of the exception that escaped
PropsResult(content, metadata, error) ==
    [content |-> content, metadata |-> metadata, error |-> error]

\* _extract_props_from_component overwriting metadata["props"] whether or not
\* it is there (seeded fault)
_extract_props_overwriting(component_code, metadata) ==
    LET props_match == PropsMatch(component_code)
    IN  IF metadata.t # "obj" THEN PropsResult(<<>>, metadata, "AttributeError")
        ELSE IF props_match.found
        THEN PropsResult(<<"export">> \o props_match.group0,
                 Obj(DictSet(metadata.v, "props", Str(props_match.group2))),
                 "none")
        ELSE PropsResult(
                 DefaultInterface(DictGet(metadata, "props", Str("ComponentProps")).v),
                 metadata, "none")

\* _extract_props_from_component(component_code, metadata).  On a metadata
\* that is no dict (a JSON array), metadata["props"] = ... raises TypeError
\* and metadata.get raises AttributeError, the handler's own metadata.get
\* raises AttributeError again, and that one escapes.
_extract_props_from_component(component_code, metadata) ==
    LET props_match == PropsMatch(component_code)
    IN  IF props_match.found
        THEN IF metadata.t = "obj"
             THEN PropsResult(<<"export">> \o props_match.group0,
                      IF ~HasKey(metadata, "props")
                      THEN Obj(DictSet(metadata.v, "props", Str(props_match.group2)))
                      ELSE metadata,
                      "none")
             ELSE IF \E i \in 1..Len(metadata.v) : metadata.v[i] = Str("props")
             THEN PropsResult(<<"export">> \o props_match.group0, metadata, "none")
             ELSE PropsResult(<<>>, metadata, "AttributeError")
        ELSE IF metadata.t = "obj"
        THEN PropsResult(
                 DefaultInterface(DictGet(metadata, "props", Str("ComponentProps")).v),
                 metadata, "none")
        ELSE PropsResult(<<>>, metadata, "AttributeError")

\* convert(component_code), from the completion text result on: the outcome.
\* Whatever is raised inside the try block is logged and raised again.
convert(result) ==
    LET extracted == ExtractComponentAndProps(result)
        ts_component_code == extracted.ts_component_code
        props_file_content == extracted.props_file_content
        metadata == ParseMetadata(MetadataStr(result))
    IN  IF extracted.error # "none"
        THEN Outcome("raised", <<>>, <<>>, Null, extracted.error)
        ELSE IF IsRaise(metadata)
        THEN Outcome("raised", <<>>, <<>>, Null, metadata.v)
        ELSE IF ~Truthy(ts_component_code)
        THEN Outcome("raised", <<>>, <<>>, Null, "ValueError")
        ELSE IF ~Truthy(props_file_content)
        THEN LET props == _extract_props_from_component(ts_component_code, metadata)
             IN  IF props.error # "none"
                 THEN Outcome("raised", <<>>, <<>>, Null, props.error)
                 ELSE Outcome("returned", ts_component_code, props.content,
                              props.metadata, "none")
        ELSE Outcome("returned", ts_component_code, props_file_content,
                     metadata, "none")

\* convert, from the completion call on: what the provider raises reaches the
\* except clause of convert, which logs it and raises it again
convert_call(completion) ==
    IF IsRaise(completion)
    THEN Outcome("raised", <<>>, <<>>, Null, completion.v)
    ELSE convert(completion.v)

---------------------------------------------------------------------------
(* Completion texts: up to MaxSegments segments, each a stretch of prose,  *)
(* a fenced block or a bare JSON text                                      *)

MaxSegments == 3

FullObject ==
    <<"{", "\"name\"", ":", "\"Card\"", ",", "\"props\"", ":", "\"CardProps\"",
      ",", "\"props_file_name\"", ":", "\"card.ts\"", "}">>

TrailingCommaObject ==
    <<"{", "\"name\"", ":", "\"Card\"", ",", "\"props\"", ":", "\"CardProps\"",
      ",", "\"props_file_name\"", ":", "\"card.ts\"", ",", "}">>

Fenced(language, content) == <<OpenFence(language)>> \o content \o <<CLOSE_FENCE>>

Segments ==
    { <<"Here">>,
      FullObject,
      TrailingCommaObject,
      Fenced("json", FullObject),
      Fenced("json", <<"{", "\"name\"", ":", "\"Card\"", "}">>),
      Fenced("json", <<"{", "\"name\"", ":", "}">>),
      Fenced("json", <<"[", "\"Card\"", "]">>),
      Fenced("tsx", <<"export", "interface", "CardProps", "{", "href", "}",
                      "function", "Card">>),
      Fenced("tsx", <<"interface", "HeroProps", "{", "href", "}", "function", "Hero">>),
      Fenced("tsx", <<"function", "Card">>),
      Fenced("typescript", <<"function", "Card">>),
      Fenced("ts", <<"export", "interface", "CardProps", "{", "href", "}">>) }

RECURSIVE Texts(_)

\* the texts of at most n segments
Texts(n) ==
    IF n = 0 THEN {<<>>}
    ELSE LET shorter == Texts(n - 1)
         IN  shorter \cup {t \o seg : t \in shorter, seg \in Segments}

---------------------------------------------------------------------------
(* convert as a state machine *)

InitConvert ==
    /\ data = <<>>
    /\ orig = <<>>
    /\ prev = <<>>
    /\ calls = 0
    /\ raised = "none"
    /\ text = <<>>
    /\ conv = Idle
    /\ provided = NotCalled
    /\ finder = [pc |-> "idle"]
    /\ catalog = <<>>

\* one call of convert: the completion provider hands back a text or raises,
\* and convert returns its tuple or raises
Convert ==
    /\ conv.pc = "idle"
    /\ provided = NotCalled
    /\ \/ \E result \in Texts(MaxSegments) :
              /\ provided' = Completed(result)
              /\ text' = result
              /\ conv' = convert_call(Completed(result))
       \/ \E e \in PROVIDER_ERRORS :
              /\ provided' = Raise(e)
              /\ text' = text
              /\ conv' = convert_call(Raise(e))
    /\ UNCHANGED <<data, orig, prev, calls, raised, finder, catalog>>

NextConvert == Convert

SpecConvert == InitConvert /\ [][NextConvert]_vars

---------------------------------------------------------------------------
(* Properties of convert *)

\* convert has returned its tuple
ConvertReturned == conv.pc = "returned"

\* the content of the first fenced json block of the completion text
JsonBlock == extract_code_from_markdown(text, "json")

\* the text has a fenced json block, and its content is valid JSON
JsonBlockValid == Truthy(JsonBlock) /\ ~IsRaise(json_loads(JsonBlock))

\* the text has a fenced json block, and its content does not parse
JsonBlockUnparsable == Truthy(JsonBlock) /\ IsRaise(json_loads(JsonBlock))

\* the text has a fenced block holding the props file
HasPropsFile == Truthy(extract_code_from_markdown(text, "ts"))

\* the names of the Props interfaces a component code declares
InterfaceNames(code) ==
    {w \in PROPS_WORDS :
        \E i \in 1..(Len(code) - 1) : code[i] = "interface" /\ code[i + 1] = w}

\* the metadata convert may return for a parsed JSON value: the value itself,
\* or, when the props file is derived from the component's interface and the
\* value is an object without the field props, the value with only the field
\* props added, naming that interface
MetadataFor(parsed) ==
    IF ~HasPropsFile /\ parsed.t = "obj" /\ ~HasKey(parsed, "props")
          /\ InterfaceNames(conv.ts_component_code) # {}
    THEN {Obj(Append(parsed.v, Entry("props", Str(w)))) :
             w \in InterfaceNames(conv.ts_component_code)}
    ELSE {parsed}

\* C8 as stated: whenever the text has a fenced json block with valid JSON
\* and convert returns, the metadata returned is exactly the parsed content of
\* that block, no field added, removed or changed.
C8_MetadataIsParsedBlock ==
    (ConvertReturned /\ JsonBlockValid) => conv.metadata = json_loads(JsonBlock)

\* C8: whenever the text has a fenced json block with valid JSON and convert
\* returns, the metadata returned is the parsed content of that first json
\* block, whatever the prose and the other blocks, except that the field props
\* is added, naming the component's Props interface, when there is no props
\* file block, the parsed object has no field props and the component
\* declares such an interface.
C8_MetadataIsParsedBlockOrDerived ==
    (ConvertReturned /\ JsonBlockValid)
        => conv.metadata \in MetadataFor(json_loads(JsonBlock))

\* convert returned the parsed json block, unchanged, of a text that opens
\* with prose and holds a component declaring an interface of another name
C8_Witness ==
    /\ ConvertReturned
    /\ JsonBlockValid
    /\ text[1] = "Here"
    /\ conv.metadata = json_loads(FullObject)
    /\ InterfaceNames(conv.ts_component_code) = {"HeroProps"}
    /\ ~HasPropsFile

\* the text holds no parsable JSON: its json block is absent or does not
\* parse, and no brace span with the marker keys is there or parses
NoParsableJson ==
    /\ ~JsonBlockValid
    /\ (~Truthy(MarkerSpan(text)) \/ IsRaise(json_loads(MarkerSpan(text))))

\* convert came to its JSON extraction step: nothing was raised before it
ReachedJsonStep ==
    conv.pc # "idle" /\ ~IsRaise(provided) /\ conv.error # UnboundLocalError

MarkerSpanValid ==
    Truthy(MarkerSpan(text)) /\ ~IsRaise(json_loads(MarkerSpan(text)))

\* C10 as stated: the brace span is scanned for also when the json block is
\* present but unparsable, so a text whose json block holds invalid JSON and
\* whose prose holds a parsable marker-key object yields that object.
C10_ScanWhenUnparsable ==
    (ConvertReturned /\ JsonBlockUnparsable /\ MarkerSpanValid)
        => conv.metadata \in MetadataFor(json_loads(MarkerSpan(text)))

\* C10: the json block comes first and the brace span second, and the span is
\* scanned for only when the json block is absent: then a parsable span is
\* the metadata; a json block that is present but unparsable yields the empty
\* dict, whatever marker-key object the prose holds.
C10_ScanOnlyWhenAbsent ==
    /\ (ConvertReturned /\ ~Truthy(JsonBlock) /\ MarkerSpanValid)
           => conv.metadata \in MetadataFor(json_loads(MarkerSpan(text)))
    /\ (ConvertReturned /\ JsonBlockUnparsable)
           => conv.metadata \in MetadataFor(Obj(<<>>))

\* convert returned the empty dict for a text whose json block is invalid and
\* whose prose holds a parsable marker-key object
C10_Witness ==
    /\ ConvertReturned
    /\ JsonBlockUnparsable
    /\ MarkerSpanValid
    /\ conv.metadata = Obj(<<>>)

\* convert returned the marker-key object of the prose of a text without a
\* json block
C10_WitnessScanned ==
    /\ ConvertReturned
    /\ ~Truthy(JsonBlock)
    /\ MarkerSpanValid
    /\ conv.metadata = json_loads(FullObject)

---------------------------------------------------------------------------
(* C19 *)

\* the URL the image rule synthesizes for the string v under the key k
SynthesizedUrl(k, v) ==
    <<"h", "t", "t", "p", "s", ":", "/", "/", "s", "o", "u", "r", "c", "e", ".", "u", "n", "s", "p", "l", "a", "s", "h", ".", "c", "o", "m", "/", "r", "a", "n", "d", "o", "m", "?">> \o
        (IF v \in {<<"i", "m", "a", "g", "e">>, <<"p", "l", "a", "c", "e", "h", "o", "l", "d", "e", "r">>, <<"p", "h", "o", "t", "o">>}
         THEN Lower(k)
         ELSE Lower(ReplaceCh(v, " ", "-")))

RECURSIVE UrlRule(_, _, _, _)

\* every string of x directly under a key naming an image that y has
\* rewritten is in y the URL synthesized from it and its key
UrlRule(x, y, underKey, key) ==
    IF x.t = "obj"
    THEN /\ y.t = "obj"
         /\ Len(y.v) = Len(x.v)
         /\ \A i \in 1..Len(x.v) : UrlRule(x.v[i].v, y.v[i].v, TRUE, x.v[i].k)
    ELSE IF x.t = "arr"
    THEN /\ y.t = "arr"
         /\ Len(y.v) = Len(x.v)
         /\ \A i \in 1..Len(x.v) : UrlRule(x.v[i], y.v[i], FALSE, <<>>)
    ELSE (x.t = "str" /\ underKey /\ NamesImage(key) /\ y # x)
            => y = Str(SynthesizedUrl(key, x.v))

UrlRuleTop(x, y) == UrlRule(x, y, FALSE, <<>>)

\* C19: a rewritten string v under an image-naming key k becomes
\* "https://source.unsplash.com/random?" followed by the lowercased k when v
\* is exactly one of the tokens image, placeholder, photo, and otherwise
\* followed by v with each space replaced by a hyphen and lowercased.
C19_UrlSynthesis == Returned => EveryItem(UrlRuleTop)

\* {"heroImage": "placeholder"} was processed into the URL built from the key
C19_Witness ==
    /\ Returned
    /\ orig = <<Obj(<<Entry(<<"h", "e", "r", "o", "I", "m", "a", "g", "e">>, Str(<<"p", "l", "a", "c", "e", "h", "o", "l", "d", "e", "r">>))>>)>>
    /\ data = <<Obj(<<Entry(<<"h", "e", "r", "o", "I", "m", "a", "g", "e">>,
                    Str(<<"h", "t", "t", "p", "s", ":", "/", "/", "s", "o", "u", "r", "c", "e", ".", "u", "n", "s", "p", "l", "a", "s", "h", ".", "c", "o", "m", "/", "r", "a", "n", "d", "o", "m", "?", "h", "e", "r", "o", "i", "m", "a", "g", "e">>))>>)>>

\* {"heroImage": " my cat"} was processed into the URL built from the value
C19_WitnessSlug ==
    /\ Returned
    /\ orig = <<Obj(<<Entry(<<"h", "e", "r", "o", "I", "m", "a", "g", "e">>, Str(<<" ", "m", "y", " ", "c", "a", "t">>))>>)>>
    /\ data = <<Obj(<<Entry(<<"h", "e", "r", "o", "I", "m", "a", "g", "e">>,
                    Str(<<"h", "t", "t", "p", "s", ":", "/", "/", "s", "o", "u", "r", "c", "e", ".", "u", "n", "s", "p", "l", "a", "s", "h", ".", "c", "o", "m", "/", "r", "a", "n", "d", "o", "m", "?", "-", "m", "y", "-", "c", "a", "t">>))>>)>>

---------------------------------------------------------------------------
(* C20 *)

\* the icon name of the string s: s without its surrounding whitespace when
\* that starts with an upper-case letter, otherwise "Fa" and that, capitalized
IconNameOf(s) ==
    LET t == Strip(s)
    IN  IF Len(t) > 0 /\ IsUpperCh(t[1]) THEN t
        ELSE <<"F", "a">> \o Capitalize(t)

\* the package of the table for a name, by its first two characters
PackageTable(name) ==
    LET prefix == SubSeq(name, 1, 2)
    IN  IF prefix = <<"F", "a">> THEN <<"r", "e", "a", "c", "t", "-", "i", "c", "o", "n", "s", "/", "f", "a">>
        ELSE IF prefix = <<"M", "d">> THEN <<"r", "e", "a", "c", "t", "-", "i", "c", "o", "n", "s", "/", "m", "d">>
        ELSE IF prefix = <<"I", "o">> THEN <<"r", "e", "a", "c", "t", "-", "i", "c", "o", "n", "s", "/", "i", "o">>
        ELSE IF prefix = <<"B", "i">> THEN <<"r", "e", "a", "c", "t", "-", "i", "c", "o", "n", "s", "/", "b", "i">>
        ELSE IF prefix = <<"F", "i">> THEN <<"r", "e", "a", "c", "t", "-", "i", "c", "o", "n", "s", "/", "f", "i">>
        ELSE <<"r", "e", "a", "c", "t", "-", "i", "c", "o", "n", "s", "/", "f", "a">>

RECURSIVE IconNameRule(_, _, _, _)

\* every string of x that y has turned into an object is in y the icon
\* reference of its name and of the package of that name, and the name starts
\* with an upper-case letter
IconNameRule(x, y, underKey, key) ==
    IF x.t = "obj"
    THEN /\ y.t = "obj"
         /\ Len(y.v) = Len(x.v)
         /\ \A i \in 1..Len(x.v) :
                IconNameRule(x.v[i].v, y.v[i].v, TRUE, x.v[i].k)
    ELSE IF x.t = "arr"
    THEN /\ y.t = "arr"
         /\ Len(y.v) = Len(x.v)
         /\ \A i \in 1..Len(x.v) : IconNameRule(x.v[i], y.v[i], FALSE, <<>>)
    ELSE (x.t = "str" /\ y.t = "obj") =>
            /\ y = Obj(<<Entry(<<"p", "a", "c", "k", "a", "g", "e">>, Str(PackageTable(IconNameOf(x.v)))),
                         Entry(<<"n", "a", "m", "e">>, Str(IconNameOf(x.v)))>>)
            /\ IsUpperCh(IconNameOf(x.v)[1])

IconNameRuleTop(x, y) == IconNameRule(x, y, FALSE, <<>>)

\* C20: the name _format_icon returns for a string s is s without its
\* surrounding whitespace when that starts with an upper-case letter, and
\* otherwise "Fa" followed by it, capitalized, so it always starts with an
\* upper-case letter; the package is the one the table gives the first two
\* characters of that name (Fa, Md, Io, Bi, Fi), react-icons/fa for any other.
C20_IconNameAndPackage == Returned => EveryItem(IconNameRuleTop)

\* {"ctaIcon": " my cat"} was processed: the name is prefixed and capitalized
C20_Witness ==
    /\ Returned
    /\ orig = <<Obj(<<Entry(<<"c", "t", "a", "I", "c", "o", "n">>, Str(<<" ", "m", "y", " ", "c", "a", "t">>))>>)>>
    /\ data = <<Obj(<<Entry(<<"c", "t", "a", "I", "c", "o", "n">>,
                    IconObject(<<"r", "e", "a", "c", "t", "-", "i", "c", "o", "n", "s", "/", "f", "a">>, <<"F", "a", "M", "y", " ", "c", "a", "t">>))>>)>>

---------------------------------------------------------------------------
(* JsonSchemaDataGenerator.generate_data, and the orchestrators together   *)

\* generate_data answering a failed completion with the empty list (seeded
\* fault)
generate_data_swallowing(completion) ==
    IF IsRaise(completion) THEN Arr(<<>>)
    ELSE IF completion.v.t = "arr" THEN _process_generated_data(completion.v.v)
    ELSE IF completion.v.t = "obj" THEN _process_generated_data(<<completion.v>>)
    ELSE Raise("ValueError")

\* generate_data, from the completion call on: the processed list, or Raise
\* of what the except clause logs and raises again
generate_data(completion) ==
    IF IsRaise(completion) THEN completion
    ELSE IF completion.v.t = "arr" THEN _process_generated_data(completion.v.v)
    ELSE IF completion.v.t = "obj" THEN _process_generated_data(<<completion.v>>)
    ELSE Raise("ValueError")

\* the values complete_with_json hands back: a list, an object or a scalar
GeneratedValues ==
    {Arr(d) : d \in DataLists} \cup {v \in Trees(MaxDepth - 1) : v.t # "arr"}

\* one call of generate_data: the provider hands back a JSON value or raises,
\* and generate_data returns the processed list or raises
GenerateData ==
    /\ calls = 0
    /\ provided = NotCalled
    /\ \E completion \in {Completed(v) : v \in GeneratedValues}
                            \cup {Raise(e) : e \in PROVIDER_ERRORS} :
           \E result \in {generate_data(completion)} :
               /\ provided' = completion
               /\ calls' = 1
               /\ raised' = IF IsRaise(result) THEN result.v ELSE "none"
               /\ data' = IF IsRaise(result) THEN data ELSE result.v
    /\ UNCHANGED <<orig, prev, text, conv, finder, catalog>>

NextOrchestrators == GenerateData \/ Convert

\* one call of generate_data or of convert, on a fresh instance
SpecOrchestrators == InitConvert /\ [][NextOrchestrators]_vars

---------------------------------------------------------------------------
(* C11 *)

\* generate_data was called, convert was called
GenerateCalled == calls = 1

ConvertCalled == conv.pc # "idle"

\* the call raised the error class e to its caller and returned nothing
RaisedToCaller(e) ==
    /\ GenerateCalled => (raised = e /\ data = <<>>)
    /\ ConvertCalled =>
          /\ conv.pc = "raised"
          /\ conv.error = e
          /\ conv.ts_component_code = <<>>
          /\ conv.props_file_content = <<>>
          /\ conv.metadata = Null

\* C11: whenever the completion provider raises an error during generate_data
\* or convert, that same error is raised to the caller and no value is
\* returned; and when generate_data is handed a completion that is neither a
\* list nor an object, it raises an error and returns no value.
C11_FailuresSurfaced ==
    /\ IsRaise(provided) => RaisedToCaller(provided.v)
    /\ (GenerateCalled /\ ~IsRaise(provided)
           /\ provided.v.t \notin {"arr", "obj"}) => RaisedToCaller("ValueError")

\* the provider timed out under generate_data, which raised that error
C11_Witness ==
    /\ GenerateCalled
    /\ provided = Raise("LLMTimeoutError")
    /\ raised = "LLMTimeoutError"
    /\ data = <<>>

\* the provider reported rate limiting under convert, which raised that error
C11_WitnessConvert ==
    /\ ConvertCalled
    /\ provided = Raise("RateLimitError")
    /\ conv = Outcome("raised", <<>>, <<>>, Null, "RateLimitError")

\* generate_data was handed a bare string and raised ValueError
C11_WitnessScalar ==
    /\ GenerateCalled
    /\ provided = Completed(Str(<<"a", "r", "r", "o", "w">>))
    /\ raised = "ValueError"
    /\ data = <<>>

---------------------------------------------------------------------------
(* C12 *)

\* the content of the first fenced block of the text found when trying the
\* tags tsx, typescript and ts in that order, empty when there is none
FirstComponentBlock ==
    LET tsx == extract_code_from_markdown(text, "tsx")
        typescript == extract_code_from_markdown(text, "typescript")
        ts == extract_code_from_markdown(text, "ts")
    IN  IF tsx # <<>> THEN tsx ELSE IF typescript # <<>> THEN typescript ELSE ts

\* C12: convert never returns an empty component: when the completion text
\* has no fenced block tagged tsx, typescript or ts, convert raises the
\* extraction failure (the ValueError of its validation step); whenever it
\* returns, the component returned is the non-empty content of the first
\* block found trying the tags tsx, typescript, ts in that order.
C12_ComponentExtracted ==
    /\ (ConvertCalled /\ ~IsRaise(provided) /\ FirstComponentBlock = <<>>)
           => (conv.pc = "raised" /\ conv.error = "ValueError")
    /\ ConvertReturned =>
           (conv.ts_component_code # <<>>
               /\ conv.ts_component_code = FirstComponentBlock)

---------------------------------------------------------------------------
(* The tag recommendation engine (TagManager), as section 4.4 of the       *)
(* specification describes it, over a small catalog.  A component name is  *)
(* a str (a sequence of characters); a tag and a category are words.       *)

\* category -> tags, in declaration order
TAG_CATEGORIES ==
    <<Entry("primary", <<"hero", "footer">>),
      Entry("function", <<"grid", "form">>),
      Entry("content", <<"headline">>),
      Entry("conversion", <<"cta", "pricing">>)>>

\* case-normalized component name -> its recommended tags
COMPONENT_TAGS ==
    <<Entry(<<"h", "e", "r", "o">>, <<"hero", "headline">>),
      Entry(<<"f", "e", "a", "t", "u", "r", "e", "s">>, <<"grid">>),
      Entry(<<"p", "r", "i", "c", "i", "n", "g">>, <<"pricing", "grid">>),
      Entry(<<"c", "t", "a">>, <<"cta">>),
      Entry(<<"f", "o", "o", "t", "e", "r">>, <<"footer">>)>>

\* the general-purpose default ordering of the component names
DEFAULT_COMPONENTS ==
    <<<<"H", "e", "r", "o">>, <<"F", "e", "a", "t", "u", "r", "e", "s">>, <<"P", "r", "i", "c", "i", "n", "g">>, <<"C", "T", "A">>, <<"F", "o", "o", "t", "e", "r">>>>

\* focus = None
NoFocus == "None"

\* s[:n] for n >= 0
Take(s, n) == SubSeq(s, 1, IF n < Len(s) THEN n ELSE Len(s))

\* the entries of table (a sequence of key/value entries) under key
Lookup(table, key) ==
    IF \E i \in 1..Len(table) : table[i].k = key
    THEN table[CHOOSE i \in 1..Len(table) : table[i].k = key].v
    ELSE <<>>

\* lookup(component_name): the tags of the case-normalized name, or the empty
\* list when the name is unknown
get_recommended_tags(name) == Lookup(COMPONENT_TAGS, Lower(name))

\* the component's tags intersect the category
InCategory(name, category) ==
    \E i \in 1..Len(get_recommended_tags(name)) :
        InList(Lookup(TAG_CATEGORIES, category), get_recommended_tags(name)[i])

\* combinations(count, focus): when focus names a known category the
\* components whose tags intersect it come first, the slots left are filled
\* from the default ordering, no component twice, stopping at count
get_component_combinations(count, focus) ==
    LET known == \E i \in 1..Len(TAG_CATEGORIES) : TAG_CATEGORIES[i].k = focus
        preferred == IF known
                     THEN SelectSeq(DEFAULT_COMPONENTS,
                                    LAMBDA c : InCategory(c, focus))
                     ELSE <<>>
        others == SelectSeq(DEFAULT_COMPONENTS, LAMBDA c : ~InList(preferred, c))
    IN  Take(preferred \o others, count)

---------------------------------------------------------------------------
(* LandingPageTagFinder.find_tags *)

\* str(item) for an item of the list the provider handed back
PyStr(item) ==
    IF item.t = "str" THEN item.v
    ELSE IF item.t = "null" THEN <<"N", "o", "n", "e">>
    ELSE IF item.t = "bool" THEN (IF item.v THEN <<"T", "r", "u", "e">> ELSE <<"F", "a", "l", "s", "e">>)
    ELSE <<"1">>

\* what a call of find_tags came to: the list returned and the class of the
\* exception that escaped, whether the provider was invoked, and the list
\* objects the call had in hand as it left them: the components argument and
\* the list the tag engine returned (recommended, first as the engine
\* returned it)
Found(result, error, invoked, components, recommended, recommended_after) ==
    [result |-> result, error |-> error, invoked |-> invoked,
     components |-> components, recommended |-> recommended,
     recommended_after |-> recommended_after]

\* find_tags_local filtering recommended in place, filtered being the list
\* the engine returned (seeded fault)
find_tags_local_in_place(components, count, focus) ==
    LET recommended == get_component_combinations(count, focus)
        filtered == SelectSeq(recommended, LAMBDA c : InList(components, c))
        remaining == SelectSeq(components, LAMBDA c : ~InList(filtered, c))
        extended == IF Len(filtered) < count /\ Len(components) >= count
                    THEN filtered \o Take(remaining, count - Len(filtered))
                    ELSE filtered
    IN  Found(Take(extended, count), "none", FALSE, components,
              recommended, extended)

\* the local selection.  filtered is a new list, so extend changes neither
\* recommended nor components.
find_tags_local(components, count, focus) ==
    LET recommended == get_component_combinations(count, focus)
        filtered == SelectSeq(recommended, LAMBDA c : InList(components, c))
        remaining == SelectSeq(components, LAMBDA c : ~InList(filtered, c))
        extended == IF Len(filtered) < count /\ Len(components) >= count
                    THEN filtered \o Take(remaining, count - Len(filtered))
                    ELSE filtered
    IN  Found(Take(extended, count), "none", FALSE, components,
              recommended, recommended)

\* the provider's result is a list, or a dict with a list among its values;
\* any other result raises ValueError
HasList(result) ==
    \/ result.t = "arr"
    \/ result.t = "obj" /\ \E i \in 1..Len(result.v) : result.v[i].v.t = "arr"

\* the list in such a result: the result itself, or the first list among the
\* values of the dict
ExtractList(result) ==
    IF result.t = "arr" THEN result.v
    ELSE result.v[CHOOSE i \in 1..Len(result.v) :
                      /\ result.v[i].v.t = "arr"
                      /\ \A j \in 1..(i - 1) : result.v[j].v.t # "arr"].v.v

RECURSIVE Pad(_, _, _, _)

\* the loop appending the default components, from the i-th on, that are not
\* among the tags while the tags are fewer than count
Pad(tags, default_components, i, count) ==
    IF i > Len(default_components) THEN tags
    ELSE IF ~InList(tags, default_components[i]) /\ Len(tags) < count
    THEN Pad(Append(tags, default_components[i]), default_components, i + 1, count)
    ELSE Pad(tags, default_components, i + 1, count)

\* the except clause: the local recommendation
Fallback(components, count, focus) ==
    LET recommended == get_component_combinations(count, focus)
    IN  Found(recommended, "none", TRUE, components, recommended, recommended)

\* find_tags_api with an except clause that raises again (seeded fault)
find_tags_api_raising(components, count, focus, completion) ==
    IF IsRaise(completion)
    THEN Found(<<>>, completion.v, TRUE, components, <<>>, <<>>)
    ELSE IF ~HasList(completion.v)
    THEN Found(<<>>, "ValueError", TRUE, components, <<>>, <<>>)
    ELSE LET result == ExtractList(completion.v)
             tags == [i \in 1..Len(result) |-> PyStr(result[i])]
         IN  IF Len(tags) < count
             THEN LET default_components ==
                          get_component_combinations(count - Len(tags), NoFocus)
                  IN  Found(Pad(tags, default_components, 1, count), "none",
                            TRUE, components, default_components,
                            default_components)
             ELSE Found(tags, "none", TRUE, components, <<>>, <<>>)

\* the API approach, from the completion call on: whatever the try block
\* raises (the provider's error, the ValueError for a result without a list)
\* reaches the except clause
find_tags_api(components, count, focus, completion) ==
    IF IsRaise(completion) \/ ~HasList(completion.v)
    THEN Fallback(components, count, focus)
    ELSE LET result == ExtractList(completion.v)
             tags == [i \in 1..Len(result) |-> PyStr(result[i])]
         IN  IF Len(tags) < count
             THEN LET default_components ==
                          get_component_combinations(count - Len(tags), NoFocus)
                  IN  Found(Pad(tags, default_components, 1, count), "none",
                            TRUE, components, default_components,
                            default_components)
             ELSE Found(tags, "none", TRUE, components, <<>>, <<>>)

\* find_tags without the test for an empty components list (seeded fault)
find_tags_without_empty_test(use_api, components, count, focus, completion) ==
    IF ~use_api THEN find_tags_local(components, count, focus)
    ELSE find_tags_api(components, count, focus, completion)

\* find_tags(components, count, focus) on an instance built with use_api,
\* completion being what the provider comes to if it is invoked
find_tags(use_api, components, count, focus, completion) ==
    IF components = <<>>
    THEN LET recommended == get_component_combinations(count, focus)
         IN  Found(recommended, "none", FALSE, components, recommended, recommended)
    ELSE IF ~use_api THEN find_tags_local(components, count, focus)
    ELSE find_tags_api(components, count, focus, completion)

---------------------------------------------------------------------------
(* LandingPageTagFinder.analyze_component_structure *)

\* bool(name) for the value under "name"
TruthyValue(x) ==
    IF x.t = "null" THEN FALSE
    ELSE IF x.t = "bool" THEN x.v
    ELSE IF x.t = "num" THEN x.v # 0
    ELSE Len(x.v) > 0

\* component.get("name", "")
NameOf(component) == DictGet(component, <<"n", "a", "m", "e">>, Str(<<>>))

\* the tags the first loop counts for a component: none for a falsy name and
\* for a name the engine does not know
TagsCounted(component) ==
    IF TruthyValue(NameOf(component)) /\ NameOf(component).t = "str"
    THEN get_recommended_tags(NameOf(component).v)
    ELSE <<>>

RECURSIVE CountTags(_, _, _)

\* how many of tags[i..] are in category_tags
CountTags(tags, i, category_tags) ==
    IF i > Len(tags) THEN 0
    ELSE (IF InList(category_tags, tags[i]) THEN 1 ELSE 0)
             + CountTags(tags, i + 1, category_tags)

RECURSIVE Coverage(_, _, _)

\* category_coverage[category] after the first loop ran over components[i..]
Coverage(components, i, category_tags) ==
    IF i > Len(components) THEN 0
    ELSE CountTags(TagsCounted(components[i]), 1, category_tags)
             + Coverage(components, i + 1, category_tags)

RECURSIVE AnyNameIsCaseSensitive(_, _, _)

\* AnyNameIs comparing the name as it is written, not lower-cased (seeded
\* fault)
AnyNameIsCaseSensitive(components, i, section) ==
    IF i > Len(components) THEN Bool(FALSE)
    ELSE IF NameOf(components[i]).t # "str" THEN Raise("AttributeError")
    ELSE IF NameOf(components[i]).v = section THEN Bool(TRUE)
    ELSE AnyNameIsCaseSensitive(components, i + 1, section)

RECURSIVE AnyNameIs(_, _, _)

\* any(comp.get("name", "").lower() == section for comp in components), from
\* the i-th component on: TRUE at the first match, without looking further;
\* AttributeError at a name that is no str
AnyNameIs(components, i, section) ==
    IF i > Len(components) THEN Bool(FALSE)
    ELSE IF NameOf(components[i]).t # "str" THEN Raise("AttributeError")
    ELSE IF Lower(NameOf(components[i]).v) = section THEN Bool(TRUE)
    ELSE AnyNameIs(components, i + 1, section)

SUGGEST_HERO == "Add a Hero section at the top of your landing page"

SUGGEST_CTA == "Include a Call to Action (CTA) section"

SUGGEST_FOOTER == "Add a Footer section"

SuggestCategory(category) ==
    "Add components with '" \o category \o "' tags for better balance"

IMPORTANT_CATEGORIES == <<"primary", "function", "content">>

\* the dict the except clause returns
AnalysisError(components, class) ==
    [component_count |-> Len(components), error |-> class]

\* analyze_component_structure(components), on the engine's TAG_CATEGORIES
analyze_component_structure(components, categories) ==
    IF \E i \in 1..Len(components) : components[i].t # "obj"
    THEN AnalysisError(components, "AttributeError")
    ELSE LET category_coverage ==
                 [c \in 1..Len(categories) |->
                     Entry(categories[c].k,
                           Coverage(components, 1, categories[c].v))]
             missing_categories ==
                 LET zero == SelectSeq(category_coverage, LAMBDA e : e.v = 0)
                 IN  [j \in 1..Len(zero) |-> zero[j].k]
             has_hero == AnyNameIs(components, 1, <<"h", "e", "r", "o">>)
             has_cta == AnyNameIs(components, 1, <<"c", "t", "a">>)
             has_footer == AnyNameIs(components, 1, <<"f", "o", "o", "t", "e", "r">>)
             important == SelectSeq(missing_categories,
                                    LAMBDA c : InList(IMPORTANT_CATEGORIES, c))
         IN  IF IsRaise(has_hero) \/ IsRaise(has_cta) \/ IsRaise(has_footer)
             THEN AnalysisError(components, "AttributeError")
             ELSE [component_count |-> Len(components),
                   has_essential_sections |->
                       [hero |-> has_hero.v, cta |-> has_cta.v,
                        footer |-> has_footer.v],
                   category_coverage |-> category_coverage,
                   missing_categories |-> missing_categories,
                   suggestions |->
                       (IF has_hero.v THEN <<>> ELSE <<SUGGEST_HERO>>)
                       \o (IF has_cta.v THEN <<>> ELSE <<SUGGEST_CTA>>)
                       \o (IF has_footer.v THEN <<>> ELSE <<SUGGEST_FOOTER>>)
                       \o [j \in 1..Len(important) |->
                              SuggestCategory(important[j])]]

---------------------------------------------------------------------------
(* The tag finder as a state machine *)

MaxCount == 5

MaxComponents == 2

\* the components arguments of find_tags; Banner is no component of the catalog
ComponentLists ==
    {<<>>, <<<<"H", "e", "r", "o">>>>, <<<<"B", "a", "n", "n", "e", "r">>, <<"H", "e", "r", "o">>>>,
     <<<<"F", "o", "o", "t", "e", "r">>, <<"B", "a", "n", "n", "e", "r">>, <<"H", "e", "r", "o">>, <<"F", "e", "a", "t", "u", "r", "e", "s">>>>}

Focuses == {NoFocus, "conversion", "speed"}

\* the values complete_with_json hands back to find_tags
ApiValues ==
    {Arr(<<>>),
     Arr(<<Str(<<"H", "e", "r", "o">>)>>),
     Arr(<<Str(<<"B", "a", "n", "n", "e", "r">>), Str(<<"H", "e", "r", "o">>)>>),
     Arr(<<Str(<<"H", "e", "r", "o">>), Str(<<"H", "e", "r", "o">>)>>),
     Arr(<<Str(<<"B", "a", "n", "n", "e", "r">>), Str(<<"P", "r", "i", "c", "i", "n", "g">>), Str(<<"F", "o", "o", "t", "e", "r">>), Str(<<"C", "T", "A">>)>>),
     Arr(<<Num(1), Null>>),
     Obj(<<Entry(<<"n", "o", "t", "e">>, Str(<<"o", "k">>)),
           Entry(<<"c", "o", "m", "p", "o", "n", "e", "n", "t", "s">>, Arr(<<Str(<<"F", "e", "a", "t", "u", "r", "e", "s">>)>>))>>),
     Obj(<<Entry(<<"n", "o", "t", "e">>, Str(<<"o", "k">>))>>),
     Str(<<"H", "e", "r", "o">>),
     Null}

ApiCompletions ==
    {Completed(v) : v \in ApiValues} \cup {Raise(e) : e \in PROVIDER_ERRORS}

\* the elements of the components arguments of analyze_component_structure
Descriptors ==
    {Obj(<<Entry(<<"n", "a", "m", "e">>, Str(n))>>) :
         n \in {<<"H", "e", "r", "o">>, <<"c", "t", "a">>, <<"F", "O", "O", "T", "E", "R">>, <<"F", "e", "a", "t", "u", "r", "e", "s">>, <<"B", "a", "n", "n", "e", "r">>, <<>>}}
      \cup {Obj(<<Entry(<<"t", "y", "p", "e">>, Str(<<"g", "r", "i", "d">>))>>),
            Obj(<<Entry(<<"n", "a", "m", "e">>, Null)>>),
            Obj(<<Entry(<<"n", "a", "m", "e">>, Num(1))>>),
            Str(<<"H", "e", "r", "o">>)}

RECURSIVE DescriptorLists(_)

\* the lists of at most n descriptors
DescriptorLists(n) ==
    IF n = 0 THEN {<<>>}
    ELSE LET shorter == DescriptorLists(n - 1)
         IN  shorter \cup {Append(l, d) : l \in shorter, d \in Descriptors}

InitFinder ==
    /\ data = <<>>
    /\ orig = <<>>
    /\ prev = <<>>
    /\ calls = 0
    /\ raised = "none"
    /\ text = <<>>
    /\ conv = Idle
    /\ provided = NotCalled
    /\ finder = [pc |-> "idle"]
    /\ catalog = TAG_CATEGORIES

\* one call of find_tags on an instance built with use_api
FindTags ==
    /\ finder.pc = "idle"
    /\ \E use_api \in BOOLEAN, components \in ComponentLists,
          count \in 0..MaxCount, focus \in Focuses,
          completion \in ApiCompletions :
           \E found \in {find_tags(use_api, components, count, focus, completion)} :
               /\ finder' = [pc |-> "find_tags", use_api |-> use_api,
                             components |-> components, count |-> count,
                             focus |-> focus, found |-> found]
               /\ provided' = IF found.invoked THEN completion ELSE NotCalled
    /\ UNCHANGED <<data, orig, prev, calls, raised, text, conv, catalog>>

\* one call of analyze_component_structure; components_after is the argument
\* as the call left it: the call reads its elements with get only
AnalyzeComponentStructure ==
    /\ finder.pc = "idle"
    /\ \E components \in DescriptorLists(MaxComponents) :
           finder' = [pc |-> "analyze", components |-> components,
                      components_after |-> components,
                      result |-> analyze_component_structure(components, catalog)]
    /\ UNCHANGED <<data, orig, prev, calls, raised, text, conv, provided, catalog>>

NextFinder == FindTags \/ AnalyzeComponentStructure

SpecFinder == InitFinder /\ [][NextFinder]_vars

---------------------------------------------------------------------------
(* Properties of find_tags *)

\* find_tags was called, in API mode on a non-empty components list
FindTagsCalled == finder.pc = "find_tags"

ApiCall == FindTagsCalled /\ finder.use_api /\ finder.components # <<>>

\* the completion step failed: the provider raised, or handed back a value
\* that is neither a list nor an object with a list among its values
CompletionFailed ==
    \/ IsRaise(provided)
    \/ /\ provided.t = "ok"
       /\ provided.v.t # "arr"
       /\ ~(provided.v.t = "obj"
              /\ \E i \in 1..Len(provided.v.v) : provided.v.v[i].v.t = "arr")

\* C13: in API mode with a non-empty components list, every failure of the
\* completion step (an error raised by the provider, a response that is
\* neither a list nor an object containing a list) makes find_tags return the
\* engine's combinations(count, focus); nothing is raised.
C13_FallbackOnFailure ==
    (ApiCall /\ CompletionFailed)
        => /\ finder.found.error = "none"
           /\ finder.found.result =
                  get_component_combinations(finder.count, finder.focus)

\* the provider reported rate limiting and find_tags returned the three
\* components recommended for the focus conversion
C13_Witness ==
    /\ ApiCall
    /\ provided = Raise("RateLimitError")
    /\ finder.count = 3
    /\ finder.focus = "conversion"
    /\ finder.found.error = "none"
    /\ finder.found.result = <<<<"P", "r", "i", "c", "i", "n", "g">>, <<"C", "T", "A">>, <<"H", "e", "r", "o">>>>

\* the provider handed back an object without a list and find_tags returned
\* the default recommendation
C13_WitnessNoList ==
    /\ ApiCall
    /\ provided = Completed(Obj(<<Entry(<<"n", "o", "t", "e">>, Str(<<"o", "k">>))>>))
    /\ finder.count = 2
    /\ finder.focus = NoFocus
    /\ finder.found.result = <<<<"H", "e", "r", "o">>, <<"F", "e", "a", "t", "u", "r", "e", "s">>>>

\* C14: for an empty components list find_tags, whatever count and focus,
\* does not invoke the provider, does not raise and returns the engine's
\* combinations(count, focus), which has exactly count names when the catalog
\* holds at least count components.
C14_EmptyComponents ==
    (FindTagsCalled /\ finder.components = <<>>)
        => /\ finder.found.error = "none"
           /\ ~finder.found.invoked
           /\ provided = NotCalled
           /\ finder.found.result =
                  get_component_combinations(finder.count, finder.focus)
           /\ finder.count <= Len(DEFAULT_COMPONENTS)
                  => Len(finder.found.result) = finder.count

\* find_tags([], count=5) on an API-mode instance returned the five default
\* components without calling the provider
C14_Witness ==
    /\ FindTagsCalled
    /\ finder.use_api
    /\ finder.components = <<>>
    /\ finder.count = 5
    /\ finder.focus = NoFocus
    /\ provided = NotCalled
    /\ finder.found.result = DEFAULT_COMPONENTS

---------------------------------------------------------------------------
(* Properties of analyze_component_structure *)

AnalyzeCalled == finder.pc = "analyze"

\* the result has the fields of a well-formed analysis
WellFormed ==
    {"has_essential_sections", "category_coverage", "missing_categories",
     "suggestions"} \subseteq DOMAIN finder.result

\* some component's name equals section case-insensitively
Named(section) ==
    \E i \in 1..Len(finder.components) :
        LET c == finder.components[i]
        IN  /\ c.t = "obj"
            /\ \E j \in 1..Len(c.v) :
                   /\ c.v[j].k = <<"n", "a", "m", "e">>
                   /\ c.v[j].v.t = "str"
                   /\ Lower(c.v[j].v.v) = section

\* the tags of a component descriptor: those the engine gives its name
ComponentTags(c) ==
    IF c.t = "obj" /\ NameOf(c).t = "str"
    THEN get_recommended_tags(NameOf(c).v)
    ELSE <<>>

\* no tag of any component is in the category
ZeroCoverage(category) ==
    \A i \in 1..Len(finder.components) :
        \A j \in 1..Len(ComponentTags(finder.components[i])) :
            ~InList(Lookup(TAG_CATEGORIES, category),
                    ComponentTags(finder.components[i])[j])

\* the add-that-section suggestions, in the order hero, CTA, footer
SectionSuggestions ==
    (IF Named(<<"h", "e", "r", "o">>) THEN <<>> ELSE <<SUGGEST_HERO>>)
    \o (IF Named(<<"c", "t", "a">>) THEN <<>> ELSE <<SUGGEST_CTA>>)
    \o (IF Named(<<"f", "o", "o", "t", "e", "r">>) THEN <<>> ELSE <<SUGGEST_FOOTER>>)

\* the suggestions for the categories without coverage among the three
CategorySuggestions ==
    {SuggestCategory(c) : c \in {c \in {"primary", "function", "content"} :
                                    ZeroCoverage(c)}}

\* C15: in the result of analyze_component_structure each of the flags hero,
\* cta, footer is true iff some component's name equals it
\* case-insensitively; the suggestions are the add-that-section suggestion of
\* each false flag, in the order hero, CTA, footer, followed by one suggestion
\* for each category without coverage among primary, function and content,
\* and nothing else.
C15_SuggestionsDerived ==
    (AnalyzeCalled /\ WellFormed)
        => /\ finder.result.has_essential_sections.hero <=> Named(<<"h", "e", "r", "o">>)
           /\ finder.result.has_essential_sections.cta <=> Named(<<"c", "t", "a">>)
           /\ finder.result.has_essential_sections.footer <=> Named(<<"f", "o", "o", "t", "e", "r">>)
           /\ LET s == finder.result.suggestions
                  k == Len(SectionSuggestions)
              IN  /\ Len(s) = k + Cardinality(CategorySuggestions)
                  /\ SubSeq(s, 1, k) = SectionSuggestions
                  /\ {s[j] : j \in (k + 1)..Len(s)} = CategorySuggestions

\* [Hero, Features] was analyzed: hero is true, a CTA and a Footer are
\* suggested
C15_Witness ==
    /\ AnalyzeCalled
    /\ finder.components = <<Obj(<<Entry(<<"n", "a", "m", "e">>, Str(<<"H", "e", "r", "o">>))>>),
                             Obj(<<Entry(<<"n", "a", "m", "e">>, Str(<<"F", "e", "a", "t", "u", "r", "e", "s">>))>>)>>
    /\ finder.result.has_essential_sections =
           [hero |-> TRUE, cta |-> FALSE, footer |-> FALSE]
    /\ finder.result.suggestions = <<SUGGEST_CTA, SUGGEST_FOOTER>>

\* [Banner] was analyzed: every section and every one of the three categories
\* is suggested
C15_WitnessCategories ==
    /\ AnalyzeCalled
    /\ finder.components = <<Obj(<<Entry(<<"n", "a", "m", "e">>, Str(<<"B", "a", "n", "n", "e", "r">>))>>)>>
    /\ finder.result.suggestions =
           <<SUGGEST_HERO, SUGGEST_CTA, SUGGEST_FOOTER,
             SuggestCategory("primary"), SuggestCategory("function"),
             SuggestCategory("content")>>

\* C16: analyze_component_structure always returns a well-formed result: for
\* an empty list and for a malformed one (an element that is no mapping, has
\* no name, or a name that is null or no string) the result has the fields
\* has_essential_sections, category_coverage, missing_categories and
\* suggestions, the coverage counts being zero where nothing contributed.
C16_AlwaysWellFormed ==
    AnalyzeCalled
        => /\ WellFormed
           /\ \A c \in 1..Len(finder.result.category_coverage) :
                  ZeroCoverage(finder.result.category_coverage[c].k)
                      => finder.result.category_coverage[c].v = 0

---------------------------------------------------------------------------
(* Padding of a short API answer *)

\* the names of the list the provider handed back
ApiNames ==
    LET result == ExtractList(provided.v)
    IN  [i \in 1..Len(result) |-> PyStr(result[i])]

\* C17: count is a minimum in API mode: when the completion succeeds with a
\* list (or an object containing a list) of fewer than count names and the
\* default ordering holds at least count distinct names, find_tags returns at
\* least count names, the names of the API first and in their order, and the
\* padding adds no name twice.
C17_CountIsMinimum ==
    (ApiCall /\ ~CompletionFailed /\ Len(ApiNames) < finder.count
        /\ Cardinality({DEFAULT_COMPONENTS[i] :
                           i \in 1..Len(DEFAULT_COMPONENTS)}) >= finder.count)
        => LET r == finder.found.result
               n == Len(ApiNames)
           IN  /\ Len(r) >= finder.count
               /\ SubSeq(r, 1, n) = ApiNames
               /\ \A i, j \in (n + 1)..Len(r) : r[i] = r[j] => i = j
               /\ \A i \in (n + 1)..Len(r) : ~InList(ApiNames, r[i])

---------------------------------------------------------------------------
(* The post-processor and the tag finder side by side *)

\* the lists the caller hands to _process_generated_data
SharedDataLists ==
    {<<>>,
     <<Obj(<<Entry(<<"h", "e", "r", "o", "I", "m", "a", "g", "e">>, Str(<<"p", "l", "a", "c", "e", "h", "o", "l", "d", "e", "r">>)), SiblingEntry>>)>>,
     <<Arr(<<Obj(<<Entry(<<"t", "i", "t", "l", "e">>, Str(<<"a", "r", "r", "o", "w">>))>>), SiblingItem>>)>>}

InitShared ==
    /\ data \in SharedDataLists
    /\ orig = data
    /\ prev = data
    /\ calls = 0
    /\ raised = "none"
    /\ text = <<>>
    /\ conv = Idle
    /\ provided = NotCalled
    /\ finder = [pc |-> "idle"]
    /\ catalog = TAG_CATEGORIES

NextShared == ProcessGeneratedData \/ FindTags \/ AnalyzeComponentStructure

\* calls of the post-processor and a call on the tag finder, in any order
SpecShared == InitShared /\ [][NextShared]_vars

---------------------------------------------------------------------------
(* The local path of find_tags *)

\* what a finder built with use_api=False returns for the arguments of the
\* recorded call
LocalResult ==
    find_tags(FALSE, finder.components, finder.count, finder.focus,
              NotCalled).result

\* C21: the API-mode fallback is the local path: for every non-empty
\* components list, count and focus, when the completion call fails,
\* find_tags of a finder built with use_api=True returns exactly the list a
\* finder built with use_api=False returns for the same arguments.
C21_FallbackIsLocalPath ==
    (ApiCall /\ CompletionFailed) => finder.found.result = LocalResult

\* no name occurs twice in the list
DuplicateFree(list) ==
    \A i, j \in 1..Len(list) : list[i] = list[j] => i = j

\* find_tags was called in local mode on a non-empty, duplicate-free list
LocalCall ==
    /\ FindTagsCalled
    /\ ~finder.use_api
    /\ finder.components # <<>>
    /\ DuplicateFree(finder.components)

\* the recommended names that are available, in recommendation order, then
\* the remaining available names in their given order
AvailableInOrder ==
    LET recommended ==
            get_component_combinations(finder.count, finder.focus)
        first == SelectSeq(recommended,
                           LAMBDA c : InList(finder.components, c))
    IN  first \o SelectSeq(finder.components, LAMBDA c : ~InList(first, c))

\* C22: in local mode with a non-empty, duplicate-free components list,
\* find_tags returns a duplicate-free list of members of components whose
\* length is exactly min(count, len(components)): the recommended names that
\* are available first, in recommendation order, then the remaining
\* available names in their given order.
C22_LocalSelection ==
    LocalCall
        => LET r == finder.found.result
               n == IF finder.count < Len(finder.components)
                    THEN finder.count ELSE Len(finder.components)
           IN  /\ DuplicateFree(r)
               /\ \A i \in 1..Len(r) : InList(finder.components, r[i])
               /\ Len(r) = n
               /\ r = Take(AvailableInOrder, n)

---------------------------------------------------------------------------
(* The props file derived from the component code *)

\* convert returned a props file it derived from the component code: the
\* text has no block holding the props file
PropsDerived == ConvertReturned /\ ~HasPropsFile

\* how many times the word occurs in the code
Occurrences(code, word) ==
    Cardinality({i \in 1..Len(code) : code[i] = word})

\* the code is one exported interface declaration: export, interface, a name,
\* a brace, members and the closing brace
IsExportedInterface(code) ==
    /\ Len(code) >= 6
    /\ code[1] = "export"
    /\ code[2] = "interface"
    /\ code[4] = "{"
    /\ code[Len(code)] = "}"
    /\ Occurrences(code, "interface") = 1

\* the name the default interface takes: metadata["props"], or ComponentProps
DefaultPropsName ==
    IF conv.metadata.t = "obj" /\ HasKey(conv.metadata, "props")
    THEN DictGet(conv.metadata, "props", Str("ComponentProps")).v
    ELSE "ComponentProps"

\* C23: when convert finds no separate props block and derives the props
\* file from the component code, the props file content returned is a single
\* interface declaration carrying the export keyword exactly once, whether
\* or not the interface was exported in the component code; when no
\* interface named *Props exists it is the default one-member interface
\* named after metadata["props"] or ComponentProps.
C23_DerivedPropsExportedOnce ==
    PropsDerived
        => /\ IsExportedInterface(conv.props_file_content)
           /\ Occurrences(conv.props_file_content, "export") = 1
           /\ InterfaceNames(conv.ts_component_code) = {}
                  => conv.props_file_content =
                         <<"export", "interface", DefaultPropsName, "{",
                           "children?", "}">>

===========================================================================
